---- MODULE Spec2Model ----
(***************************************************************************)
(* Model of calculatePricesWithMarkupDiscount (src/src/utils/pricing.ts).  *)
(*                                                                         *)
(* The function is pure.  A behaviour is one call: Init draws the input    *)
(* record, and exactly one of the four actions (one per way the call can   *)
(* end) produces the outcome.                                              *)
(*                                                                         *)
(* A JavaScript value of an input field is modelled as a record            *)
(*   [t |-> "number" | "undefined" | "null", n |-> Int, d |-> Nat \ {0}]   *)
(* where a number is the exact rational n/d in lowest terms.  A Decimal    *)
(* of decimal.js is modelled by the same record with t = "number".         *)
(* decimal.js works with 20 significant digits: every product, sum and     *)
(* difference of the values used here is exact within that precision, and  *)
(* a quotient is inexact only beyond the 20th digit, which changes neither *)
(* a comparison with, nor a rounding to two decimal places of, any value   *)
(* reachable with the inputs below.  NaN and the infinities are not part   *)
(* of the input sets.                                                      *)
(***************************************************************************)
EXTENDS Integers, FiniteSets, Sequences, TLC

VARIABLES input, pc, result

vars == <<input, pc, result>>

(***************************************************************************)
(* Bounds of the input sets.                                               *)
(***************************************************************************)
MaxSpotK == 2
MaxPromoK == 2
MaxCapK == 4

(***************************************************************************)
(* Exact arithmetic standing for decimal.js.                               *)
(***************************************************************************)
Abs(x) == IF x < 0 THEN 0 - x ELSE x

Sign(x) == IF x < 0 THEN 0 - 1 ELSE 1

RECURSIVE Gcd(_, _)
Gcd(a, b) == IF b = 0 THEN a ELSE Gcd(b, a % b)

\* new Decimal(v) for the rational n/d (d # 0), in lowest terms, d > 0.
Dec(n, d) ==
    LET g == Gcd(Abs(n), Abs(d))
        s == Sign(d)
    IN  [t |-> "number", n |-> (s * n) \div g, d |-> Abs(d) \div g]

Undefined == [t |-> "undefined", n |-> 0, d |-> 1]

Null == [t |-> "null", n |-> 0, d |-> 1]

IsNumber(v) == v.t = "number"

\* JavaScript's !v for a field that is a number, undefined or null.
Falsy(v) == v.t # "number" \/ v.n = 0

Times(x, y) == Dec(x.n * y.n, x.d * y.d)

Plus(x, y) == Dec(x.n * y.d + y.n * x.d, x.d * y.d)

Minus(x, y) == Dec(x.n * y.d - y.n * x.d, x.d * y.d)

DividedBy(x, y) == Dec(x.n * y.d, x.d * y.n)

LessThan(x, y) == x.n * y.d < y.n * x.d

GreaterThan(x, y) == x.n * y.d > y.n * x.d

IsZero(x) == x.n = 0

\* 10^dp
RECURSIVE Pow10(_)
Pow10(dp) == IF dp = 0 THEN 1 ELSE 10 * Pow10(dp - 1)

\* Decimal.ROUND_HALF_UP: to the nearest integer, a tie away from zero.
RoundHalfUp(x) == Sign(x.n) * ((2 * Abs(x.n) + x.d) \div (2 * x.d))

\* x.toDecimalPlaces(dp, Decimal.ROUND_HALF_UP).toNumber()
ToDecimalPlaces(x, dp) ==
    Dec(RoundHalfUp(Dec(x.n * Pow10(dp), x.d)), Pow10(dp))

(***************************************************************************)
(* Program constant.                                                       *)
(***************************************************************************)
ONE_MILLION_IN_CENTS == 100000000

(***************************************************************************)
(* Input sets.                                                             *)
(***************************************************************************)
SpotPrices ==
    {Undefined, Null, Dec(0, 1), Dec(0 - 50, 1), Dec(2000, 1)}
        \cup {Dec(25 * k, 1) : k \in 1..MaxSpotK}

TierMarkups ==
    {Undefined, Dec(0, 1), Dec(0 - 11, 10), Dec(9, 10), Dec(11, 10), Dec(2, 1)}

WholesaleMarkups ==
    {Undefined, Dec(0, 1), Dec(0 - 1, 2), Dec(95, 100), Dec(12, 10)}

PromoDiscounts ==
    {Undefined, Dec(0 - 20, 1), Dec(20, 1)}
        \cup {Dec(50 * k, 1) : k \in 0..MaxPromoK}

MetalWeights == {Undefined, Dec(0, 1), Dec(0 - 1, 1), Dec(1, 1), Dec(1, 10)}

Tier0Prices == {Undefined, Dec(0, 1), Dec(60, 1), Dec(2300, 1)}

PremiumCaps ==
    {Undefined, Null, Dec(0 - 5, 1), Dec(33335, 1000)}
        \cup {Dec(25 * k, 1) : k \in 0..MaxCapK}

Inputs ==
    [spotPrice : SpotPrices,
     markupByTier : TierMarkups,
     wholesaleMarkup : WholesaleMarkups,
     promoMarkupDiscount : PromoDiscounts,
     actualMetalWeight : MetalWeights,
     tier0Price : Tier0Prices,
     maximumPremiumDiscount : PremiumCaps]

(***************************************************************************)
(* The body of calculatePricesWithMarkupDiscount, one definition per       *)
(* local of the source.                                                    *)
(***************************************************************************)
\* Mutant: the guard requires both fields to be missing.
missingRequiredBoth(in) == Falsy(in.spotPrice) /\ Falsy(in.markupByTier)

\* if (!spotPrice || !markupByTier)
missingRequired(in) == Falsy(in.spotPrice) \/ Falsy(in.markupByTier)

tierPrice(in) == Times(in.spotPrice, in.markupByTier)

\* Mutant: the tier price is truncated instead of rounded half-up.
formattedTierPriceTruncated(in) ==
    Dec(Sign(tierPrice(in).n) * (Abs(tierPrice(in).n) \div tierPrice(in).d), 1)

formattedTierPrice(in) == ToDecimalPlaces(tierPrice(in), 0)

\* if (!promoMarkupDiscount || !wholesaleMarkup || !actualMetalWeight)
noPromoDiscount(in) ==
    \/ Falsy(in.promoMarkupDiscount)
    \/ Falsy(in.wholesaleMarkup)
    \/ Falsy(in.actualMetalWeight)

nabxPrice(in) == Times(in.spotPrice, in.wholesaleMarkup)

meltValue(in) == Times(in.spotPrice, in.actualMetalWeight)

tier0PriceDecimal(in) ==
    IF ~Falsy(in.tier0Price) THEN in.tier0Price ELSE tierPrice(in)

tier0Premium(in) == Minus(tier0PriceDecimal(in), meltValue(in))

\* Mutant: the house markup is not clamped at zero.
houseMarkupUnclamped(in) == Minus(tierPrice(in), nabxPrice(in))

houseMarkup(in) ==
    LET hm == Minus(tierPrice(in), nabxPrice(in))
    IN  IF LessThan(hm, Dec(0, 1)) THEN Dec(0, 1) ELSE hm

\* Mutant: the discount rate has the wrong sign.
markupDiscountRateNegated(in) ==
    DividedBy(Minus(Dec(0, 1), in.promoMarkupDiscount), Dec(100, 1))

markupDiscountRate(in) == DividedBy(in.promoMarkupDiscount, Dec(100, 1))

\* Mutant: the house markup is multiplied by the rate, not by 1 - rate.
discountedHouseMarkupByRate(in) == Times(houseMarkup(in), markupDiscountRate(in))

discountedHouseMarkup(in) ==
    Times(houseMarkup(in), Minus(Dec(1, 1), markupDiscountRate(in)))

\* Mutant: the discounted house markup is subtracted from the wholesale price.
uncappedFinalPriceMinus(in) == Minus(nabxPrice(in), discountedHouseMarkup(in))

\* discountedFinalPrice, totalDiscount and totalDiscountPercent as first
\* assigned (lines 99-107), before the cap.
uncappedFinalPrice(in) == Plus(nabxPrice(in), discountedHouseMarkup(in))

uncappedDiscount(in) == Minus(tier0PriceDecimal(in), uncappedFinalPrice(in))

uncappedDiscountPercent(in) ==
    IF IsZero(tier0Premium(in))
    THEN Dec(0, 1)
    ELSE Times(DividedBy(uncappedDiscount(in), tier0Premium(in)), Dec(100, 1))

\* totalDiscountPercent.greaterThan(maximumPremiumDiscount) constructs a
\* Decimal from its argument: undefined and null make the constructor throw.
capThrows(in) == ~IsNumber(in.maximumPremiumDiscount)

\* Mutant: the cap is applied when the percentage is below the maximum.
cappedLessThan(in) ==
    LessThan(uncappedDiscountPercent(in), in.maximumPremiumDiscount)

capped(in) == GreaterThan(uncappedDiscountPercent(in), in.maximumPremiumDiscount)

\* Mutant: the capped amount is not divided by 100.
cappedDiscountAmountNoPercent(in) ==
    Times(tier0Premium(in), in.maximumPremiumDiscount)

cappedDiscountAmount(in) ==
    DividedBy(Times(tier0Premium(in), in.maximumPremiumDiscount), Dec(100, 1))

\* Mutant: the capped amount is added to the reference price.
discountedFinalPricePlus(in) ==
    IF capped(in)
    THEN Plus(tier0PriceDecimal(in), cappedDiscountAmount(in))
    ELSE uncappedFinalPrice(in)

\* The three locals as they stand at the return statement.
discountedFinalPrice(in) ==
    IF capped(in)
    THEN Minus(tier0PriceDecimal(in), cappedDiscountAmount(in))
    ELSE uncappedFinalPrice(in)

totalDiscount(in) ==
    IF capped(in) THEN cappedDiscountAmount(in) ELSE uncappedDiscount(in)

totalDiscountPercent(in) ==
    IF capped(in) THEN in.maximumPremiumDiscount ELSE uncappedDiscountPercent(in)

\* Which way the call ends.
path(in) ==
    IF missingRequired(in) THEN "fallback"
    ELSE IF noPromoDiscount(in) THEN "tier"
    ELSE IF capThrows(in) THEN "threw"
    ELSE "discount"

Threw == [threw |-> TRUE]

Returned(o, c, td, tdp) ==
    [threw |-> FALSE,
     originalPrice |-> o,
     calculatedPrice |-> c,
     totalDiscount |-> td,
     totalDiscountPercent |-> tdp]

fallbackResult ==
    Returned(Dec(ONE_MILLION_IN_CENTS, 1), Dec(ONE_MILLION_IN_CENTS, 1),
             Dec(0, 1), Dec(0, 1))

tierResult(in) ==
    Returned(formattedTierPrice(in), formattedTierPrice(in), Dec(0, 1), Dec(0, 1))

discountResult(in) ==
    Returned(formattedTierPrice(in),
             ToDecimalPlaces(discountedFinalPrice(in), 0),
             ToDecimalPlaces(totalDiscount(in), 0),
             ToDecimalPlaces(totalDiscountPercent(in), 2))

\* The outcome of the call as a function of the input.
calculatePricesWithMarkupDiscount(in) ==
    CASE path(in) = "fallback" -> fallbackResult
      [] path(in) = "tier" -> tierResult(in)
      [] path(in) = "threw" -> Threw
      [] path(in) = "discount" -> discountResult(in)

(***************************************************************************)
(* The state machine: one call.                                            *)
(***************************************************************************)
NoResult == [threw |-> FALSE]

Init ==
    /\ input \in Inputs
    /\ pc = "call"
    /\ result = NoResult

\* lines 52-59
ReturnFallback ==
    /\ pc = "call"
    /\ path(input) = "fallback"
    /\ result' = calculatePricesWithMarkupDiscount(input)
    /\ pc' = "returned"
    /\ UNCHANGED input

\* lines 62-75
ReturnTierPrice ==
    /\ pc = "call"
    /\ path(input) = "tier"
    /\ result' = calculatePricesWithMarkupDiscount(input)
    /\ pc' = "returned"
    /\ UNCHANGED input

\* lines 78-110, the comparison with the cap throwing
ThrowInvalidArgument ==
    /\ pc = "call"
    /\ path(input) = "threw"
    /\ result' = calculatePricesWithMarkupDiscount(input)
    /\ pc' = "threw"
    /\ UNCHANGED input

\* lines 78-131
ReturnDiscounted ==
    /\ pc = "call"
    /\ path(input) = "discount"
    /\ result' = calculatePricesWithMarkupDiscount(input)
    /\ pc' = "returned"
    /\ UNCHANGED input

Next ==
    \/ ReturnFallback
    \/ ReturnTierPrice
    \/ ThrowInvalidArgument
    \/ ReturnDiscounted

Spec == Init /\ [][Next]_vars

TypeOK ==
    /\ input \in Inputs
    /\ pc \in {"call", "returned", "threw"}
    /\ (pc = "threw") = (result = Threw)

(***************************************************************************)
(* Vocabulary of the properties.                                           *)
(***************************************************************************)
Zero == Dec(0, 1)

OnFallbackPath(in) == path(in) = "fallback"

OnTierPath(in) == path(in) = "tier"

OnDiscountPath(in) == path(in) = "discount"

\* r is x rounded half-up to an integer, stated without RoundHalfUp: r is
\* an integer at distance at most 1/2 from x, and at distance exactly 1/2
\* only when it is the one further from zero.
IsHalfUpRounding(r, x) ==
    /\ IsNumber(r)
    /\ r.d = 1
    /\ 2 * Abs(r.n * x.d - x.n) <= x.d
    /\ (2 * Abs(r.n * x.d - x.n) = x.d => Abs(r.n * x.d) > Abs(x.n))

\* v has at most two decimal places
TwoDecimalPlaces(v) == (100 * v.n) % v.d = 0

NumericPromos == {p \in PromoDiscounts : IsNumber(p)}

NumericCaps == {m \in PremiumCaps : IsNumber(m)}

WithPromo(in, p) == [in EXCEPT !.promoMarkupDiscount = p]

WithCap(in, m) == [in EXCEPT !.maximumPremiumDiscount = m]

\* C1: whenever spotPrice or markupByTier is zero or absent, the call returns
\* exactly {originalPrice: 100000000, calculatedPrice: 100000000,
\* totalDiscount: 0, totalDiscountPercent: 0}, whatever the other fields are.
C1_Fallback ==
    (pc # "call" /\ (Falsy(input.spotPrice) \/ Falsy(input.markupByTier)))
        => /\ pc = "returned"
           /\ result = [threw |-> FALSE,
                        originalPrice |-> Dec(100000000, 1),
                        calculatedPrice |-> Dec(100000000, 1),
                        totalDiscount |-> Zero,
                        totalDiscountPercent |-> Zero]
           /\ result.originalPrice.n = ONE_MILLION_IN_CENTS

\* Witness of C1: a call returned with markupByTier absent while every other
\* field, spotPrice included, is a non-zero number.
C1_Witness ==
    /\ pc = "returned"
    /\ input.markupByTier = Undefined
    /\ ~Falsy(input.spotPrice)
    /\ ~Falsy(input.promoMarkupDiscount)
    /\ ~Falsy(input.wholesaleMarkup)
    /\ ~Falsy(input.actualMetalWeight)
    /\ ~Falsy(input.tier0Price)
    /\ ~Falsy(input.maximumPremiumDiscount)

\* C2: the call never raises an error: for every input record it ends by
\* returning a record whose four fields are all defined.
C2_NeverRaises ==
    pc # "call"
        => /\ pc = "returned"
           /\ ~result.threw
           /\ DOMAIN result = {"threw", "originalPrice", "calculatedPrice",
                               "totalDiscount", "totalDiscountPercent"}
           /\ IsNumber(result.originalPrice)
           /\ IsNumber(result.calculatedPrice)
           /\ IsNumber(result.totalDiscount)
           /\ IsNumber(result.totalDiscountPercent)

\* C3: with non-zero spotPrice and markupByTier and at least one of
\* promoMarkupDiscount, wholesaleMarkup, actualMetalWeight zero or absent,
\* originalPrice = calculatedPrice = spotPrice * markupByTier rounded half-up
\* to an integer, and totalDiscount = totalDiscountPercent = 0.
C3_NoDiscount ==
    (/\ pc # "call"
     /\ ~Falsy(input.spotPrice)
     /\ ~Falsy(input.markupByTier)
     /\ \/ Falsy(input.promoMarkupDiscount)
        \/ Falsy(input.wholesaleMarkup)
        \/ Falsy(input.actualMetalWeight))
        => /\ pc = "returned"
           /\ IsHalfUpRounding(result.originalPrice,
                               Times(input.spotPrice, input.markupByTier))
           /\ result.calculatedPrice = result.originalPrice
           /\ result.totalDiscount = Zero
           /\ result.totalDiscountPercent = Zero

\* Witness of C3: a no-discount return whose tier price is a tie (fraction
\* exactly one half), with only actualMetalWeight missing.
C3_Witness ==
    /\ pc = "returned"
    /\ ~Falsy(input.spotPrice)
    /\ ~Falsy(input.markupByTier)
    /\ ~Falsy(input.promoMarkupDiscount)
    /\ ~Falsy(input.wholesaleMarkup)
    /\ Falsy(input.actualMetalWeight)
    /\ Times(input.spotPrice, input.markupByTier).d = 2
    /\ result.calculatedPrice.n > 0

\* The uncapped percentage as the claim writes it:
\* (referencePrice - (wholesalePrice + discountedHouseMarkup)) / tier0Premium * 100
\* is greater than maximumPremiumDiscount (tier0Premium non-zero).
UncappedPercentExceedsCap(in) ==
    /\ ~IsZero(tier0Premium(in))
    /\ GreaterThan(
           Times(DividedBy(Minus(tier0PriceDecimal(in),
                                 Plus(nabxPrice(in), discountedHouseMarkup(in))),
                           tier0Premium(in)),
                 Dec(100, 1)),
           in.maximumPremiumDiscount)

\* C4 as written: for every input the returned totalDiscountPercent never
\* exceeds maximumPremiumDiscount, and equals it exactly whenever the
\* uncapped percentage is greater than maximumPremiumDiscount.
C4_Original ==
    (pc = "returned" /\ IsNumber(input.maximumPremiumDiscount))
        => /\ ~GreaterThan(result.totalDiscountPercent,
                           input.maximumPremiumDiscount)
           /\ (OnDiscountPath(input) /\ UncappedPercentExceedsCap(input))
                  => result.totalDiscountPercent = input.maximumPremiumDiscount

\* C4 amended: for every input whose maximumPremiumDiscount is a number that
\* is not negative and has at most two decimal places, the returned
\* totalDiscountPercent never exceeds maximumPremiumDiscount, and equals it
\* exactly whenever the uncapped percentage is greater.
C4_CapAmended ==
    (/\ pc = "returned"
     /\ IsNumber(input.maximumPremiumDiscount)
     /\ input.maximumPremiumDiscount.n >= 0
     /\ TwoDecimalPlaces(input.maximumPremiumDiscount))
        => /\ ~GreaterThan(result.totalDiscountPercent,
                           input.maximumPremiumDiscount)
           /\ (OnDiscountPath(input) /\ UncappedPercentExceedsCap(input))
                  => result.totalDiscountPercent = input.maximumPremiumDiscount

\* Witness of C4: a discount-path return in which the uncapped percentage is
\* above a positive cap and the returned percentage is that cap.
C4_Witness ==
    /\ pc = "returned"
    /\ OnDiscountPath(input)
    /\ input.maximumPremiumDiscount.n > 0
    /\ TwoDecimalPlaces(input.maximumPremiumDiscount)
    /\ UncappedPercentExceedsCap(input)
    /\ result.totalDiscountPercent = input.maximumPremiumDiscount
    /\ input.spotPrice.n > 0
    /\ input.markupByTier.n > 0
    /\ input.wholesaleMarkup.n > 0
    /\ input.promoMarkupDiscount.n > 0
    /\ input.actualMetalWeight.n > 0
    /\ tier0Premium(input).n > 0

\* The documented example: {spotPrice: 2000, markupByTier: 1.1,
\* promoMarkupDiscount: 20, wholesaleMarkup: 0.95, actualMetalWeight: 1.0,
\* maximumPremiumDiscount: 50}.
ExampleInput ==
    [spotPrice |-> Dec(2000, 1),
     markupByTier |-> Dec(11, 10),
     promoMarkupDiscount |-> Dec(20, 1),
     wholesaleMarkup |-> Dec(95, 100),
     actualMetalWeight |-> Dec(1, 1),
     tier0Price |-> Undefined,
     maximumPremiumDiscount |-> Dec(50, 1)]

\* spotPrice * wholesaleMarkup + max(spotPrice * markupByTier
\*   - spotPrice * wholesaleMarkup, 0) * (1 - promoMarkupDiscount / 100),
\* over the integers: numerator and denominator of the exact value.
C5_Den(in) ==
    in.spotPrice.d * in.wholesaleMarkup.d * in.markupByTier.d
        * in.promoMarkupDiscount.d * 100

C5_Num(in) ==
    LET s == in.spotPrice
        m == in.markupByTier
        w == in.wholesaleMarkup
        p == in.promoMarkupDiscount
        \* both products over the denominator s.d * w.d * m.d
        tier == s.n * m.n * w.d
        nabx == s.n * w.n * m.d
        hm == IF tier - nabx > 0 THEN tier - nabx ELSE 0
    IN  nabx * p.d * 100 + hm * (100 * p.d - p.n)

TierBelowWholesale(in) ==
    LessThan(Times(in.spotPrice, in.markupByTier),
             Times(in.spotPrice, in.wholesaleMarkup))

\* C6 as written: on the discount path, whenever the tier price is below the
\* wholesale price, calculatedPrice is spotPrice * wholesaleMarkup rounded
\* half-up, for every promoMarkupDiscount, tier0Price, actualMetalWeight and
\* maximumPremiumDiscount.
C6_Original ==
    (pc = "returned" /\ OnDiscountPath(input) /\ TierBelowWholesale(input))
        => IsHalfUpRounding(result.calculatedPrice,
                            Times(input.spotPrice, input.wholesaleMarkup))

\* C6 amended: on the discount path, whenever the tier price is below the
\* wholesale price and the cap is not triggered, calculatedPrice is
\* spotPrice * wholesaleMarkup rounded half-up, for every promoMarkupDiscount.
C6_ClampAmended ==
    (/\ pc = "returned"
     /\ OnDiscountPath(input)
     /\ TierBelowWholesale(input)
     /\ ~capped(input))
        => IsHalfUpRounding(result.calculatedPrice,
                            Times(input.spotPrice, input.wholesaleMarkup))

\* Witness of C6: an uncapped discount-path return of positive inputs with the
\* tier priced below wholesale and a reference price given.
C6_Witness ==
    /\ pc = "returned"
    /\ OnDiscountPath(input)
    /\ TierBelowWholesale(input)
    /\ ~capped(input)
    /\ input.spotPrice.n > 0
    /\ input.markupByTier.n > 0
    /\ input.promoMarkupDiscount.n > 0
    /\ input.actualMetalWeight.n > 0
    /\ ~Falsy(input.tier0Price)
    /\ result.calculatedPrice.n > 0

\* Both calls, with promoMarkupDiscount p1 = that of the state and p2, end on
\* the discount path with no cap triggered, and p1 < p2.
UncappedPair(in, p2) ==
    /\ OnDiscountPath(in)
    /\ OnDiscountPath(WithPromo(in, p2))
    /\ LessThan(in.promoMarkupDiscount, p2)
    /\ ~capped(in)
    /\ ~capped(WithPromo(in, p2))

\* C7 as written: of two discount-path inputs that differ only in
\* promoMarkupDiscount, p1 < p2, neither capped, the one with p2 has a
\* strictly smaller calculatedPrice and a larger totalDiscount.
C7_Original ==
    pc = "returned"
        => \A p2 \in NumericPromos :
               UncappedPair(input, p2)
                   => LET r2 == calculatePricesWithMarkupDiscount(
                                    WithPromo(input, p2))
                      IN  /\ LessThan(r2.calculatedPrice, result.calculatedPrice)
                          /\ GreaterThan(r2.totalDiscount, result.totalDiscount)

\* houseMarkup * (p2 - p1) / 100 is at least one cent
DiscountStepAtLeastOne(in, p2) ==
    ~LessThan(Times(houseMarkup(in),
                    DividedBy(Minus(p2, in.promoMarkupDiscount), Dec(100, 1))),
              Dec(1, 1))

\* C7 amended: of two discount-path inputs that differ only in
\* promoMarkupDiscount, p1 < p2, neither capped, the one with p2 has a
\* calculatedPrice that is smaller or equal and a totalDiscount that is larger
\* or equal; both strictly when houseMarkup * (p2 - p1) / 100 is at least 1.
C7_MonotoneAmended ==
    pc = "returned"
        => \A p2 \in NumericPromos :
               UncappedPair(input, p2)
                   => LET r2 == calculatePricesWithMarkupDiscount(
                                    WithPromo(input, p2))
                      IN  /\ ~GreaterThan(r2.calculatedPrice,
                                          result.calculatedPrice)
                          /\ ~LessThan(r2.totalDiscount, result.totalDiscount)
                          /\ DiscountStepAtLeastOne(input, p2)
                                 => /\ LessThan(r2.calculatedPrice,
                                                result.calculatedPrice)
                                    /\ GreaterThan(r2.totalDiscount,
                                                   result.totalDiscount)

\* Witness of C7: an uncapped pair of positive inputs whose prices differ.
C7_Witness ==
    /\ pc = "returned"
    /\ input.spotPrice.n > 0
    /\ input.promoMarkupDiscount.n > 0
    /\ \E p2 \in NumericPromos :
           /\ UncappedPair(input, p2)
           /\ DiscountStepAtLeastOne(input, p2)
           /\ LessThan(calculatePricesWithMarkupDiscount(
                           WithPromo(input, p2)).calculatedPrice,
                       result.calculatedPrice)

Percent0To100(v) == IsNumber(v) /\ v.n >= 0 /\ v.n <= 100 * v.d

\* spotPrice > 0, markupByTier > 0, wholesaleMarkup >= 0, actualMetalWeight
\* >= 0, tier0Price absent or > 0, promoMarkupDiscount and
\* maximumPremiumDiscount within 0..100.
WellFormed(in) ==
    /\ IsNumber(in.spotPrice) /\ in.spotPrice.n > 0
    /\ IsNumber(in.markupByTier) /\ in.markupByTier.n > 0
    /\ IsNumber(in.wholesaleMarkup) /\ in.wholesaleMarkup.n >= 0
    /\ IsNumber(in.actualMetalWeight) /\ in.actualMetalWeight.n >= 0
    /\ (in.tier0Price = Undefined \/ in.tier0Price.n > 0)
    /\ Percent0To100(in.promoMarkupDiscount)
    /\ Percent0To100(in.maximumPremiumDiscount)

\* C8: for every well-formed input the returned calculatedPrice is never
\* negative.
C8_NonNegativePrice ==
    (pc # "call" /\ WellFormed(input))
        => /\ pc = "returned"
           /\ IsNumber(result.calculatedPrice)
           /\ result.calculatedPrice.n >= 0

\* Witness of C8: a well-formed input returned on the capped path with the
\* whole premium discountable (cap 100) and a reference price given.
C8_Witness ==
    /\ pc = "returned"
    /\ WellFormed(input)
    /\ OnDiscountPath(input)
    /\ capped(input)
    /\ ~Falsy(input.tier0Price)
    /\ input.maximumPremiumDiscount = Dec(100, 1)

\* C9: on the discount path with an integer reference price (tier0Price when
\* given, else an integer tier price), referencePrice - totalDiscount =
\* calculatedPrice for the rounded values returned.
C9_DiscountIsDifference ==
    (/\ pc = "returned"
     /\ OnDiscountPath(input)
     /\ tier0PriceDecimal(input).d = 1)
        => Minus(tier0PriceDecimal(input), result.totalDiscount)
               = result.calculatedPrice

\* Both calls, with maximumPremiumDiscount m1 = that of the state and m2, end
\* on the discount path, and m1 < m2.
CapPair(in, m2) ==
    /\ OnDiscountPath(in)
    /\ OnDiscountPath(WithCap(in, m2))
    /\ LessThan(in.maximumPremiumDiscount, m2)

\* C10 as written: of two discount-path inputs that differ only in
\* maximumPremiumDiscount, m1 < m2, the calculatedPrice for m1 is greater than
\* or equal to that for m2, and strictly greater when the result for m1 is
\* capped and the result for m2 is not.
C10_Original ==
    pc = "returned"
        => \A m2 \in NumericCaps :
               CapPair(input, m2)
                   => LET r2 == calculatePricesWithMarkupDiscount(
                                    WithCap(input, m2))
                      IN  /\ ~LessThan(result.calculatedPrice,
                                       r2.calculatedPrice)
                          /\ (capped(input) /\ ~capped(WithCap(input, m2)))
                                 => GreaterThan(result.calculatedPrice,
                                                r2.calculatedPrice)

\* the price capped at m1 is at least one cent above the uncapped price
CapRaisesByAtLeastOne(in) ==
    ~LessThan(Minus(Minus(tier0PriceDecimal(in), cappedDiscountAmount(in)),
                    uncappedFinalPrice(in)),
              Dec(1, 1))

\* C10 amended: of two discount-path inputs with a positive tier0 premium
\* (reference price above melt value) that differ only in
\* maximumPremiumDiscount, m1 < m2, the calculatedPrice for m1 is greater than
\* or equal to that for m2, and strictly greater when the result for m1 is
\* capped, the result for m2 is not, and the capped price before rounding is
\* at least one cent above the uncapped one.
C10_CapAmended ==
    (pc = "returned" /\ OnDiscountPath(input) /\ tier0Premium(input).n > 0)
        => \A m2 \in NumericCaps :
               CapPair(input, m2)
                   => LET r2 == calculatePricesWithMarkupDiscount(
                                    WithCap(input, m2))
                      IN  /\ ~LessThan(result.calculatedPrice,
                                       r2.calculatedPrice)
                          /\ (/\ capped(input)
                              /\ ~capped(WithCap(input, m2))
                              /\ CapRaisesByAtLeastOne(input))
                                 => GreaterThan(result.calculatedPrice,
                                                r2.calculatedPrice)

\* Witness of C10: a well-formed pair, capped at m1 and not at m2, whose
\* prices differ.
C10_Witness ==
    /\ pc = "returned"
    /\ WellFormed(input)
    /\ OnDiscountPath(input)
    /\ tier0Premium(input).n > 0
    /\ capped(input)
    /\ \E m2 \in NumericCaps :
           /\ CapPair(input, m2)
           /\ ~capped(WithCap(input, m2))
           /\ GreaterThan(result.calculatedPrice,
                          calculatePricesWithMarkupDiscount(
                              WithCap(input, m2)).calculatedPrice)

\* promoMarkupDiscount is within 1..100
Promo1To100(in) ==
    /\ IsNumber(in.promoMarkupDiscount)
    /\ in.promoMarkupDiscount.n >= in.promoMarkupDiscount.d
    /\ in.promoMarkupDiscount.n <= 100 * in.promoMarkupDiscount.d

====
